---- MODULE Spec2Model ----
(***************************************************************************)
(* Model of autonomous_task_planner.py: the four agents (reviewer,        *)
(* collector, planner, executor), the orchestrator AutonomousTaskPlanner  *)
(* (construction, cron setup, run_agent, run_full_workflow) and the       *)
(* command-line entry point.  Every invocation of the script is one       *)
(* operating-system process; the crontab and the calendar are the state   *)
(* the processes share.                                                   *)
(*                                                                         *)
(* Outcomes of the outside world (a collaborator call that raises, a      *)
(* missing environment variable, an unreadable config file) are inputs    *)
(* chosen with \E in the actions.  An exception raised in a step is       *)
(* handled where the source handles it: by the step's own try/except      *)
(* when it has one, otherwise by the try/except of the agent's execute.   *)
(***************************************************************************)
EXTENDS Integers, Sequences, FiniteSets, TLC

\* ------------------------------------------------------------------ bounds
\* Number of invocations of the script (user launches and cron launches).
MaxProcs == 2
\* Longest conflict list handed to the planner in SpecPlanner.
MaxConflicts == 2
\* Time instants 0..MaxTime for the slots of the plans in SpecDetect.
MaxTime == 4
\* Most slots of a plan in SpecDetect.
MaxSlots == 2

\* ------------------------------------------------- constants of the program
\* _update_calendar_events reports {"created": 5, "updated": 3}
CalendarCreatedPerRun == 5

Procs == 1..MaxProcs
Outcome == {"ok", "raise"}
\* argparse: --agent {reviewer,collector,planner,executor}, --workflow, or neither
Commands == {"reviewer", "collector", "planner", "executor", "workflow", "none"}
CronJobs == {"reviewer", "collector"}

\* A key that a Python dict does not hold.
Absent == [status |-> "absent"]
HasKey(d, k) == d[k] # Absent
\* Python's None as a returned value.
NoneResult == [status |-> "None"]
\* {"status": "error", "message": str(e)}
ErrorResult(msg) == [status |-> "error", message |-> msg]

VARIABLES
    pc,               \* pc[p]: where process p is
    command,          \* command[p]: the command line of process p
    trigger,          \* trigger[p]: who launched p ("user" or "cron")
    started,          \* started[p]: the agents whose execute p has invoked, in order
    results,          \* results[p]: the stage results p holds (dict keyed by stage)
    subops,           \* subops[p]: sub-operations of ExecutorAgent.execute p has invoked
    output,           \* output[p]: what run_agent / run_full_workflow returned, or the traceback
    exit_code,        \* exit_code[p]: exit status of p (-1 while running)
    crontab,          \* the user's crontab: number of jobs per comment
    calendar_created, \* events created in the calendar by all executor runs
    log,              \* log[p]: the warnings and errors p has logged
    u_pc,             \* unit specifications: position
    u_in,             \* unit specifications: the drawn input
    u_out             \* unit specifications: the value returned

vars == <<pc, command, trigger, started, results, subops, output, exit_code,
          crontab, calendar_created, log, u_pc, u_in, u_out>>
procVars == <<pc, command, trigger, started, results, subops, output, exit_code,
              crontab, calendar_created, log>>
unitVars == <<u_pc, u_in, u_out>>

\* ---------------------------------------------------------- CollectorAgent
\* What the outside world does during one run of CollectorAgent.execute.
CollectorEnvs ==
    [calendar : Outcome, weather_key : BOOLEAN, weather : Outcome,
     notion : Outcome, gemini : Outcome]

\* _fetch_weather_data: None without an API key, None when the request raises
\* (the function's own try/except), the observation otherwise.
_fetch_weather_data(env) ==
    IF ~env.weather_key
    THEN [value |-> "None", log |-> {"Weather API key not configured"}]
    ELSE IF env.weather = "raise"
         THEN [value |-> "None", log |-> {"Failed to fetch weather data"}]
         ELSE [value |-> "weather", log |-> {}]

\* _structure_data: the language model's answer, or raw_data when it raises.
_structure_data(raw_data, env) ==
    IF env.gemini = "raise"
    THEN [value |-> raw_data, log |-> {"Data structuring failed"}]
    ELSE [value |-> [structured |-> TRUE, ai_response |-> "text"], log |-> {}]

_prepare_clean_data(structured_data) ==
    [data_quality |-> "high", ready_for_planning |-> TRUE,
     structured_data |-> structured_data]

\* CollectorAgent.execute.  _fetch_calendar_events and _fetch_notion_tasks have
\* no handler of their own: an exception raised there reaches the except
\* clause of execute.  Both return [] otherwise.
CollectorAgentExecute(env) ==
    IF env.calendar = "raise"
    THEN [result |-> ErrorResult("calendar"), log |-> {"Collector agent failed"}]
    ELSE
    LET calendar_events == <<>>
        w == _fetch_weather_data(env)
    IN  IF env.notion = "raise"
        THEN [result |-> ErrorResult("notion"),
              log |-> w.log \cup {"Collector agent failed"}]
        ELSE
        LET notion_tasks == <<>>
            s == _structure_data([calendar_events |-> calendar_events,
                                  weather_data |-> w.value,
                                  notion_tasks |-> notion_tasks], env)
        IN  [result |-> [status |-> "success",
                         calendar_events |-> Len(calendar_events),
                         weather_updated |-> (w.value # "None"),
                         notion_tasks |-> Len(notion_tasks),
                         structured_data |-> _prepare_clean_data(s.value)],
             log |-> w.log \cup s.log]

\* ------------------------------------------------------------ PlannerAgent
PlannerEnvs == [draft : Outcome, resolve : Outcome, rules : Outcome]

\* _draft_plan: the drafted plan, or an error record when the model call raises.
_draft_plan(env) ==
    IF env.draft = "raise"
    THEN [value |-> ErrorResult("draft"), log |-> {"Plan drafting failed"}]
    ELSE [value |-> [plan_type |-> "daily", ai_generated |-> TRUE,
                     plan_details |-> "text", tasks |-> <<>>],
          log |-> {}]

\* ConflictDetector.detect_conflicts: conflicts = []; return conflicts.
detect_conflicts(plan) == <<>>

\* _resolve_conflicts: the plan annotated with the resolution, or the plan as
\* it was when the model call raises.
_resolve_conflicts(plan, conflicts, env) ==
    IF env.resolve = "raise"
    THEN [value |-> plan, log |-> {"Conflict resolution failed"}]
    ELSE [value |-> [conflicts_resolved |-> Len(conflicts),
                     resolution_details |-> "text"] @@ plan,
          log |-> {}]

_apply_learned_rules(plan) == [optimization_applied |-> TRUE] @@ plan

_approve_plan(plan) == [approved |-> TRUE, ready_for_execution |-> TRUE] @@ plan

\* plan.get('tasks', [])
GetTasks(plan) == IF "tasks" \in DOMAIN plan THEN plan.tasks ELSE <<>>

\* PlannerAgent.execute from step 3 on, given the drafted plan and the
\* detector's answer.  _apply_learned_rules has no handler of its own.
PlanAfterDetection(draft, conflicts, env) ==
    LET r == IF conflicts # <<>>
             THEN _resolve_conflicts(draft.value, conflicts, env)
             ELSE [value |-> draft.value, log |-> {}]
    IN  IF env.rules = "raise"
        THEN [result |-> ErrorResult("rules"),
              log |-> draft.log \cup r.log \cup {"Planner agent failed"}]
        ELSE
        LET approved_plan == _approve_plan(_apply_learned_rules(r.value))
        IN  [result |-> [status |-> "success",
                         plan_approved |-> TRUE,
                         conflicts_resolved |-> Len(conflicts),
                         optimized_tasks |-> Len(GetTasks(approved_plan)),
                         final_plan |-> approved_plan],
             log |-> draft.log \cup r.log]

\* PlannerAgent.execute.  input_data only feeds the prompt of _draft_plan.
PlannerAgentExecute(input_data, env) ==
    LET draft == _draft_plan(env)
    IN  PlanAfterDetection(draft, detect_conflicts(draft.value), env)

\* ----------------------------------------------------------- ExecutorAgent
ExecutorEnvs ==
    [calendar : Outcome, notion : Outcome, telegram_token : BOOLEAN,
     telegram : Outcome, reminders : Outcome]

\* _send_notifications: {"sent": 0} without a bot or when sending raises.
_send_notifications(env) ==
    IF ~env.telegram_token
    THEN [sent |-> 0, log |-> {"Telegram bot not configured"}]
    ELSE IF env.telegram = "raise"
         THEN [sent |-> 0, log |-> {"Notification sending failed"}]
         ELSE [sent |-> 1, log |-> {}]

\* ExecutorAgent.execute.  _update_calendar_events, _update_notion_tasks and
\* _schedule_reminders have no handler of their own.  created: the events this
\* run created; subops: the sub-operations it invoked.
ExecutorAgentExecute(approved_plan, env) ==
    IF env.calendar = "raise"
    THEN [result |-> ErrorResult("calendar"), log |-> {"Executor agent failed"},
          created |-> 0, subops |-> {"calendar"}]
    ELSE IF env.notion = "raise"
    THEN [result |-> ErrorResult("notion"), log |-> {"Executor agent failed"},
          created |-> CalendarCreatedPerRun, subops |-> {"calendar", "notion"}]
    ELSE
    LET n == _send_notifications(env)
    IN  IF env.reminders = "raise"
        THEN [result |-> ErrorResult("reminders"),
              log |-> n.log \cup {"Executor agent failed"},
              created |-> CalendarCreatedPerRun,
              subops |-> {"calendar", "notion", "notification", "reminders"}]
        ELSE [result |-> [status |-> "success",
                          calendar_events_created |-> CalendarCreatedPerRun,
                          notion_tasks_updated |-> 8,
                          notifications_sent |-> n.sent,
                          reminders_scheduled |-> 3],
              log |-> n.log,
              created |-> CalendarCreatedPerRun,
              subops |-> {"calendar", "notion", "notification", "reminders"}]

\* ---------------------------------------------------- ReviewerLearnerAgent
ReviewerEnvs == [calendar : Outcome, gemini : Outcome, notion : Outcome]

\* ReviewerLearnerAgent.execute.  _analyze_patterns, _generate_rules and
\* _generate_feedback handle a raising model call themselves;
\* _fetch_completed_tasks and _store_rules do not.
ReviewerAgentExecute(env) ==
    IF env.calendar = "raise"
    THEN [result |-> ErrorResult("calendar"), log |-> {"Reviewer agent failed"}]
    ELSE
    LET g == IF env.gemini = "raise"
             THEN [n |-> 0, feedback |-> "Unable to generate feedback at this time.",
                   log |-> {"Pattern analysis failed"}]
             ELSE [n |-> 1, feedback |-> "text", log |-> {}]
    IN  IF env.notion = "raise"
        THEN [result |-> ErrorResult("notion"),
              log |-> g.log \cup {"Reviewer agent failed"}]
        ELSE [result |-> [status |-> "success", completed_tasks_analyzed |-> 0,
                          patterns_identified |-> g.n, rules_generated |-> g.n,
                          feedback |-> g.feedback],
              log |-> g.log]

\* --------------------------------------------------- AutonomousTaskPlanner
StartupEnvs == [config : Outcome, gemini_key : BOOLEAN, cron : Outcome]

CronComments == {"autonomous_planner_reviewer", "autonomous_planner_collector"}
JobComment(job) == "autonomous_planner_" \o job

\* CronTab.remove_all(comment=c): removes the jobs whose comment equals c.
remove_all(cron, c) == [k \in DOMAIN cron |-> IF k = c THEN 0 ELSE cron[k]]

\* CronTab.new(comment=c)
new(cron, c) == [cron EXCEPT ![c] = @ + 1]

\* _setup_cron_jobs: the crontab it leaves; nothing is written when it raises.
_setup_cron_jobs(cron, env) ==
    IF env.cron = "raise"
    THEN cron
    ELSE new(new(remove_all(cron, "autonomous_planner"),
                 "autonomous_planner_reviewer"),
             "autonomous_planner_collector")

\* _load_config: the parsed file.  When open or json.load raises, the handler
\* calls self.logger.error, and __init__ assigns self.logger only after
\* _load_config has returned: AttributeError leaves the handler.
_load_config(env) ==
    IF env.config = "raise"
    THEN [raises |-> "AttributeError"]
    ELSE [raises |-> "none", value |-> "config"]

\* AutonomousTaskPlanner.__init__ completes: _load_config returns, and each
\* agent that needs the language model finds GEMINI_API_KEY (ValueError
\* otherwise).
InitCompletes(env) == _load_config(env).raises = "none" /\ env.gemini_key

\* The exception that ends __init__ when it does not complete.
InitException(env) ==
    IF _load_config(env).raises # "none"
    THEN _load_config(env).raises
    ELSE "ValueError"

\* What the interpreter reports for an uncaught exception.
Traceback(exc) == [status |-> "traceback", exception |-> exc]

\* A workflow that plans on whatever the collector returned.
WorkflowRunsPlannerUnguarded(res) == res.collector.status \in {"success", "error"}

\* run_full_workflow, step 2: the planner runs when the collector succeeded.
WorkflowRunsPlanner(res) == res.collector.status = "success"

\* run_full_workflow, step 3: short-circuit and.
WorkflowRunsExecutor(res) ==
    /\ res.planner.status = "success"
    /\ res.planner.plan_approved

\* run_agent("executor"): planner_result.get("plan_approved")
RunAgentRunsExecutor(planner_result) ==
    /\ "plan_approved" \in DOMAIN planner_result
    /\ planner_result.plan_approved

\* The dict run_full_workflow returns.
WorkflowResult(res) == [workflow_status |-> "completed", results |-> res]

\* Exit status of the interpreter: no sys.exit in __main__, 1 on a traceback.
ExitNormal == 0
ExitTraceback == 1

NoResults == [collector |-> Absent, planner |-> Absent, executor |-> Absent]
NotReturned == [status |-> "running"]
Stages == {"collecting", "planning", "executing", "reviewing"}

ProcInit ==
    /\ pc = [p \in Procs |-> "idle"]
    /\ command = [p \in Procs |-> "none"]
    /\ trigger = [p \in Procs |-> "none"]
    /\ started = [p \in Procs |-> <<>>]
    /\ results = [p \in Procs |-> NoResults]
    /\ subops = [p \in Procs |-> {}]
    /\ output = [p \in Procs |-> NotReturned]
    /\ exit_code = [p \in Procs |-> -1]
    /\ crontab = [k \in CronComments |-> 0]
    /\ calendar_created = 0
    /\ log = [p \in Procs |-> {}]

Init ==
    /\ ProcInit
    /\ u_pc = "off"
    /\ u_in = <<>>
    /\ u_out = <<>>

\* Process ids are handed out in order.
Free(p) == pc[p] = "idle" /\ \A q \in Procs : q < p => pc[q] # "idle"

\* The user runs the script.
Launch(p) ==
    /\ Free(p)
    /\ \E cmd \in Commands :
        /\ command' = [command EXCEPT ![p] = cmd]
        /\ trigger' = [trigger EXCEPT ![p] = "user"]
    /\ pc' = [pc EXCEPT ![p] = "init"]
    /\ UNCHANGED <<started, results, subops, output, exit_code, crontab,
                   calendar_created, log, unitVars>>

\* cron runs an installed job: python3 <file> --agent reviewer|collector.
\* Nothing in the script or the job looks for a run still in progress.
CronFire(p) ==
    /\ Free(p)
    /\ \E job \in CronJobs :
        /\ crontab[JobComment(job)] > 0
        /\ command' = [command EXCEPT ![p] = job]
        /\ trigger' = [trigger EXCEPT ![p] = "cron"]
    /\ pc' = [pc EXCEPT ![p] = "init"]
    /\ UNCHANGED <<started, results, subops, output, exit_code, crontab,
                   calendar_created, log, unitVars>>

\* The process ends: the value returned to __main__ and the exit status.
Exit(p, value, code) ==
    /\ pc' = [pc EXCEPT ![p] = "exited"]
    /\ output' = [output EXCEPT ![p] = value]
    /\ exit_code' = [exit_code EXCEPT ![p] = code]

\* Process p invokes the execute of an agent.
Begin(p, stage, agent) ==
    /\ pc' = [pc EXCEPT ![p] = stage]
    /\ started' = [started EXCEPT ![p] = Append(@, agent)]
    /\ UNCHANGED <<output, exit_code>>

\* __main__ up to the first agent: construction (config, agents, cron jobs),
\* then the dispatch of run_agent / run_full_workflow.
Startup(p) ==
    /\ pc[p] = "init"
    /\ \E env \in StartupEnvs :
        IF ~InitCompletes(env)
        THEN /\ Exit(p, Traceback(InitException(env)), ExitTraceback)
             /\ UNCHANGED <<started, crontab>>
        ELSE /\ crontab' = _setup_cron_jobs(crontab, env)
             /\ CASE command[p] = "none" ->
                        Exit(p, NotReturned, ExitNormal) /\ UNCHANGED started
                  [] command[p] = "reviewer" -> Begin(p, "reviewing", "reviewer")
                  [] OTHER -> Begin(p, "collecting", "collector")
    /\ UNCHANGED <<command, trigger, results, subops, calendar_created, log,
                   unitVars>>

\* reviewer_agent.execute returns.
ReviewerReturn(p) ==
    /\ pc[p] = "reviewing"
    /\ \E env \in ReviewerEnvs :
        LET r == ReviewerAgentExecute(env)
        IN  /\ log' = [log EXCEPT ![p] = @ \cup r.log]
            /\ Exit(p, r.result, ExitNormal)
    /\ UNCHANGED <<command, trigger, started, results, subops, crontab,
                   calendar_created, unitVars>>

\* collector_agent.execute returns, and the caller goes on.
CollectorReturn(p) ==
    /\ pc[p] = "collecting"
    /\ \E env \in CollectorEnvs :
        LET r == CollectorAgentExecute(env)
            res == [results[p] EXCEPT !.collector = r.result]
        IN  /\ log' = [log EXCEPT ![p] = @ \cup r.log]
            /\ results' = [results EXCEPT ![p] = res]
            /\ CASE command[p] = "collector" ->
                        Exit(p, r.result, ExitNormal) /\ UNCHANGED started
                 [] command[p] \in {"planner", "executor"} ->
                        Begin(p, "planning", "planner")
                 [] command[p] = "workflow" ->
                        IF WorkflowRunsPlanner(res)
                        THEN Begin(p, "planning", "planner")
                        ELSE /\ Exit(p, WorkflowResult(res), ExitNormal)
                             /\ UNCHANGED started
    /\ UNCHANGED <<command, trigger, subops, crontab, calendar_created, unitVars>>

\* planner_agent.execute returns, and the caller goes on.
PlannerReturn(p) ==
    /\ pc[p] = "planning"
    /\ \E env \in PlannerEnvs :
        LET r == PlannerAgentExecute(results[p].collector, env)
            res == [results[p] EXCEPT !.planner = r.result]
        IN  /\ log' = [log EXCEPT ![p] = @ \cup r.log]
            /\ results' = [results EXCEPT ![p] = res]
            /\ CASE command[p] = "planner" ->
                        Exit(p, r.result, ExitNormal) /\ UNCHANGED started
                 [] command[p] = "executor" ->
                        IF RunAgentRunsExecutor(r.result)
                        THEN Begin(p, "executing", "executor")
                        ELSE /\ Exit(p, NoneResult, ExitNormal)
                             /\ UNCHANGED started
                 [] command[p] = "workflow" ->
                        IF WorkflowRunsExecutor(res)
                        THEN Begin(p, "executing", "executor")
                        ELSE /\ Exit(p, WorkflowResult(res), ExitNormal)
                             /\ UNCHANGED started
    /\ UNCHANGED <<command, trigger, subops, crontab, calendar_created, unitVars>>

\* executor_agent.execute returns, and the caller returns.
ExecutorReturn(p) ==
    /\ pc[p] = "executing"
    /\ \E env \in ExecutorEnvs :
        LET r == ExecutorAgentExecute(results[p].planner.final_plan, env)
            res == [results[p] EXCEPT !.executor = r.result]
        IN  /\ log' = [log EXCEPT ![p] = @ \cup r.log]
            /\ results' = [results EXCEPT ![p] = res]
            /\ subops' = [subops EXCEPT ![p] = r.subops]
            /\ calendar_created' = calendar_created + r.created
            /\ IF command[p] = "workflow"
               THEN Exit(p, WorkflowResult(res), ExitNormal)
               ELSE Exit(p, r.result, ExitNormal)
    /\ UNCHANGED <<command, trigger, started, crontab, unitVars>>

Next ==
    \E p \in Procs :
        \/ Launch(p)
        \/ CronFire(p)
        \/ Startup(p)
        \/ ReviewerReturn(p)
        \/ CollectorReturn(p)
        \/ PlannerReturn(p)
        \/ ExecutorReturn(p)

Spec == Init /\ [][Next]_vars

\* ------------------------------------------------------------------------
\* SpecPlanner: PlannerAgent.execute with its collaborators' answers (the
\* collector's result, the conflict detector's list, the language model's
\* outcome) drawn from bounded sets.
ConflictKinds == {"TimeOverlap", "LocationClash"}
ConflictLists == UNION {[1..n -> ConflictKinds] : n \in 0..MaxConflicts}
CollectorResults == {CollectorAgentExecute(env).result : env \in CollectorEnvs}

InitPlanner ==
    /\ ProcInit
    /\ u_pc = "ready"
    /\ u_in \in [input_data : CollectorResults, conflicts : ConflictLists]
    /\ u_out = <<>>

\* PlannerAgent.execute runs with the detector answering u_in.conflicts.
PlannerUnit ==
    /\ u_pc = "ready"
    /\ \E env \in PlannerEnvs :
        u_out' = PlanAfterDetection(_draft_plan(env), u_in.conflicts, env)
    /\ u_pc' = "returned"
    /\ UNCHANGED <<u_in, procVars>>

NextPlanner == PlannerUnit

SpecPlanner == InitPlanner /\ [][NextPlanner]_vars

\* ------------------------------------------------------------------------
\* SpecDetect: ConflictDetector.detect_conflicts applied to plans whose task
\* lists hold time slots [start, end) drawn from bounded sets.
Slots == {sl \in [start : 0..MaxTime, end : 0..MaxTime] : sl.start < sl.end}
SlotLists == UNION {[1..n -> Slots] : n \in 0..MaxSlots}

\* Two half-open intervals share an instant.
Overlap(a, b) == a.start < b.end /\ b.start < a.end
HasOverlap(tasks) ==
    \E i, j \in 1..Len(tasks) : i < j /\ Overlap(tasks[i], tasks[j])

InitDetect ==
    /\ ProcInit
    /\ u_pc = "ready"
    /\ u_in \in [plan_type : {"daily"}, tasks : SlotLists]
    /\ u_out = <<>>

DetectUnit ==
    /\ u_pc = "ready"
    /\ u_out' = detect_conflicts(u_in)
    /\ u_pc' = "returned"
    /\ UNCHANGED <<u_in, procVars>>

NextDetect == DetectUnit

SpecDetect == InitDetect /\ [][NextDetect]_vars

\* ======================================================================
\* Properties
\* ======================================================================
Chain == <<"collector", "planner", "executor">>
IsPrefix(s, t) == Len(s) <= Len(t) /\ \A i \in 1..Len(s) : s[i] = t[i]
Workflows == {p \in Procs : command[p] = "workflow"}
\* p returned from run_agent / run_full_workflow to __main__.
Returned(p) == pc[p] = "exited" /\ exit_code[p] = ExitNormal /\ output[p] # NotReturned
Succeeded(r) == r.status = "success"
Failed(r) == r.status = "error"

\* C1: in every run of run_full_workflow the agents are invoked in the order
\* collector, planner, executor, each at most once; the planner only after
\* the collector returned status success, the executor only after the planner
\* returned status success with plan_approved true.
C1_WorkflowStageOrder ==
    \A p \in Workflows :
        /\ IsPrefix(started[p], Chain)
        /\ Len(started[p]) >= 2 => Succeeded(results[p].collector)
        /\ Len(started[p]) >= 3 =>
              /\ Succeeded(results[p].planner)
              /\ results[p].planner.plan_approved

\* C1 witness: one workflow ran the whole chain, another stopped after a
\* failed collector.
C1_Witness ==
    \E p, q \in Workflows :
        /\ Returned(p) /\ started[p] = Chain
        /\ Returned(q) /\ started[q] = <<"collector">>
        /\ Failed(results[q].collector)

AllSucceeded(res) ==
    \A k \in {"collector", "planner", "executor"} : Succeeded(res[k])

\* C3: run_full_workflow reports the completed status only when the three
\* stages succeeded, and a failed status when a stage returned an error.
C3_FailedRunReportsFailed ==
    \A p \in Workflows :
        Returned(p) =>
            (output[p].workflow_status = "completed" <=> AllSucceeded(results[p]))

\* C4: the results run_full_workflow returns hold a record for each of the
\* three stages: success or error for a stage that ran, skipped for one that
\* did not.
C4_EveryStageRecorded ==
    \A p \in Workflows :
        Returned(p) =>
            \A k \in {"collector", "planner", "executor"} :
                /\ HasKey(output[p].results, k)
                /\ output[p].results[k].status \in {"success", "error", "skipped"}

\* The collaborator calls that failed in p's run of the collector, read from
\* what it logged and returned.
CollectorFailures(p) ==
    {c \in {"weather"} : "Failed to fetch weather data" \in log[p]}
    \cup {c \in {"gemini"} : "Data structuring failed" \in log[p]}
    \cup {c \in {"calendar", "notion"} :
            Failed(results[p].collector) /\ results[p].collector.message = c}

\* C5: when exactly one collaborator call of the collector fails, execute
\* returns status success, with the field of the failed source empty.
C5_SingleFailureTolerated ==
    \A p \in Procs :
        (HasKey(results[p], "collector") /\ Cardinality(CollectorFailures(p)) = 1)
        => /\ Succeeded(results[p].collector)
           /\ "weather" \in CollectorFailures(p)
                 => ~results[p].collector.weather_updated

\* The sub-operations that failed in p's run of the executor.
ExecutorFailures(p) ==
    {c \in {"notification"} : "Notification sending failed" \in log[p]}
    \cup {c \in {"calendar", "notion", "reminders"} :
            Failed(results[p].executor) /\ results[p].executor.message = c}

\* C6: a failed sub-operation of the executor does not stop the later ones:
\* all four are invoked and execute returns a report with an outcome for each.
C6_SubOperationFailureIsolated ==
    \A p \in Procs :
        (HasKey(results[p], "executor") /\ ExecutorFailures(p) # {})
        => /\ subops[p] = {"calendar", "notion", "notification", "reminders"}
           /\ "notifications_sent" \in DOMAIN results[p].executor

\* C7: a second successful run of the executor on the same approved plan
\* creates no calendar events beyond those of the first.
C7_ExecuteIdempotent ==
    \A p, q \in Procs :
        (/\ p # q
         /\ HasKey(results[p], "executor") /\ Succeeded(results[p].executor)
         /\ HasKey(results[q], "executor") /\ Succeeded(results[q].executor)
         /\ results[p].planner.final_plan = results[q].planner.final_plan)
        => calendar_created = CalendarCreatedPerRun

\* C8: a run that a cron trigger started is never in a stage while another
\* run is in that same stage.
C8_SingleFlightPerStage ==
    \A p, q \in Procs :
        (p # q /\ trigger[p] = "cron" /\ pc[p] \in Stages) => pc[q] # pc[p]

\* C9: detect_conflicts returns no conflict exactly when no two slots of the
\* plan overlap.
C9_DetectsOverlaps ==
    u_pc = "returned" => (u_out = <<>> <=> ~HasOverlap(u_in.tasks))

\* What the agents p ran returned.
StageResults(p) ==
    {results[p][k] : k \in {"collector", "planner", "executor"}}
    \cup (IF command[p] = "reviewer" THEN {output[p]} ELSE {})

\* C10: the process exits with status 0 only when no agent it ran returned
\* status error.
C10_ExitCodeReflectsFailure ==
    \A p \in Procs :
        (pc[p] = "exited" /\ exit_code[p] = 0)
        => \A r \in StageResults(p) : ~Failed(r)

\* C11: in run_agent the planner is invoked only after the collector returned
\* status success, and the executor only after the planner returned status
\* success with an approved plan.
C11_RunAgentStageGuards ==
    \A p \in Procs :
        command[p] \in {"planner", "executor"} =>
            /\ Len(started[p]) >= 2 => Succeeded(results[p].collector)
            /\ Len(started[p]) >= 3 =>
                  /\ Succeeded(results[p].planner)
                  /\ results[p].planner.plan_approved

\* C12: a run that a scheduled trigger started and whose collector returned
\* status success goes on to the planner (and, with an approved plan, to the
\* executor) before it ends.
C12_ScheduledRunCompletesChain ==
    \A p \in Procs :
        (/\ trigger[p] = "cron"
         /\ pc[p] = "exited"
         /\ HasKey(results[p], "collector")
         /\ Succeeded(results[p].collector))
        => /\ Len(started[p]) >= 2
           /\ started[p][2] = "planner"
           /\ (Succeeded(results[p].planner) /\ results[p].planner.plan_approved)
                 => (Len(started[p]) >= 3 /\ started[p][3] = "executor")

\* C13: a plan whose drafting failed is not approved: the planner does not
\* return status success with plan_approved true for it, the plan is not
\* marked approved or ready_for_execution, and the executor is not invoked.
C13_FailedDraftNotApproved ==
    \A p \in Procs :
        (HasKey(results[p], "planner") /\ "Plan drafting failed" \in log[p])
        => /\ ~(/\ Succeeded(results[p].planner)
                /\ results[p].planner.plan_approved)
           /\ "executor" \notin {started[p][i] : i \in 1..Len(started[p])}

\* C14: however many times the script has started, the crontab holds at most
\* one reviewer job and one collector job, and as many of the one as of the
\* other.
C14_CronSetupIdempotent ==
    /\ \A c \in CronComments : crontab[c] <= 1
    /\ crontab["autonomous_planner_reviewer"]
           = crontab["autonomous_planner_collector"]

\* C15: for each of the four agent names run_agent returns a result record
\* whose status is success or error, on every path.
C15_RunAgentReturnsResult ==
    \A p \in Procs :
        (/\ command[p] \in {"reviewer", "collector", "planner", "executor"}
         /\ pc[p] = "exited"
         /\ exit_code[p] = ExitNormal)
        => output[p].status \in {"success", "error"}

\* C16: a configuration file that cannot be opened or parsed does not abort
\* construction: no run ends with the exception of _load_config's handler.
C16_ConfigFailureTolerated ==
    \A p \in Procs :
        (pc[p] = "exited" /\ exit_code[p] = ExitTraceback)
        => output[p].exception # "AttributeError"

====
